---- MODULE Spec2Model ----
(***************************************************************************)
(* Credential and token service of the data-platform backend:             *)
(*   app/core/security.py   password hashing, JWT issuance and validation *)
(*   app/auth/service.py    AuthService over the users table              *)
(*   app/auth/routes.py     the /auth endpoints                           *)
(*                                                                         *)
(* Time is counted in ticks, Res ticks to the second, so that the         *)
(* truncation of datetimes to whole seconds done by the JWT library is    *)
(* part of the model.                                                      *)
(***************************************************************************)
EXTENDS Integers, Sequences, FiniteSets, TLC

VARIABLES
    config,     \* module-level configuration of security.py, read once at import
    now,        \* the wall clock (datetime.utcnow), in ticks
    held,       \* the bearer token the client currently presents
    heldInfo,   \* history: how the held token came to be
    last,       \* the most recent call: operation, arguments, outcome
    users,      \* the users table: a sequence of rows, in insertion order
    plain,      \* history: the password each row's hash was made from
    tasks,      \* the calls in progress, one per concurrent request task
    schemas_db, \* api/v1/schema.py: the in-memory schema store, id -> schema
    query,      \* a Query object (models/query.py) and how it was constructed
    data_source \* a DataSource object (models/data_source.py)

vars == <<config, now, held, heldInfo, last, users, plain, tasks,
          schemas_db, query, data_source>>

tokenVars == <<held, heldInfo>>
dbVars == <<users, plain>>
storeVars == <<schemas_db, query, data_source>>

-----------------------------------------------------------------------------
(* Bounds of the model *)

Res == 2          \* ticks per second
MaxClock == 4     \* the clock stops advancing at this tick
MaxUsers == 2     \* rows the users table may hold

(* Program constants *)

DefaultExpireMinutes == 60      \* ACCESS_TOKEN_EXPIRE_MINUTES default
SecondsPerMinute == 60          \* timedelta(minutes=...)

DefaultSecret == "your-secret-key-change-in-production"
DefaultAlgorithm == "HS256"

-----------------------------------------------------------------------------
(* JSON values carried by claims: a claim is absent, a string or an integer *)

Absent == [t |-> "none"]
Str(s) == [t |-> "str", s |-> s]
Int_(i) == [t |-> "int", i |-> i]

IsStr(v) == v.t = "str"
IsInt(v) == v.t = "int"

Subjects == {"test@example.com", "u2@example.com"}
UserIds == {1, 2}

(* The mappings callers pass to create_access_token.                       *)
SubChoices == {Absent} \cup {Str(s) : s \in Subjects}
UserIdChoices == {Absent, Int_(1), Str("abc")}
DataChoices == [sub : SubChoices, user_id : UserIdChoices]

(* expires_delta: not given, or a timedelta of so many ticks.              *)
NoDelta == [given |-> FALSE]
Delta(n) == [given |-> TRUE, ticks |-> n]
DeltaChoices == {NoDelta, Delta(0), Delta(1), Delta(Res)}

(* Python truthiness of Optional[timedelta]: None and timedelta(0) are falsy *)
Truthy(expires_delta) == expires_delta.given /\ expires_delta.ticks # 0

-----------------------------------------------------------------------------
(* The JWT library (python-jose) as app/core/security.py uses it.          *)

(* timegm(dt.utctimetuple()): a datetime as whole seconds since the epoch  *)
timegm(ticks) == ticks \div Res

(* An HMAC signature: determined by key, algorithm and the signed claims.  *)
Sign(claims, key, alg) == [key |-> key, alg |-> alg, over |-> claims]

(* jwt.encode: a datetime exp is converted to whole seconds, then signed.  *)
jwt_encode(to_encode, key, alg) ==
    LET claims == [sub |-> to_encode.sub, user_id |-> to_encode.user_id,
                   exp |-> timegm(to_encode.exp)]
    IN [kind |-> "jwt", claims |-> claims, sig |-> Sign(claims, key, alg)]

(* A string that is not a three-part signed structure.                     *)
Malformed(text) == [kind |-> "malformed", text |-> text]

JwtOk(payload) == [ok |-> TRUE, payload |-> payload]
JwtErr(e) == [ok |-> FALSE, error |-> e]

(* jose.jwt._validate_exp with leeway 0: expired only when exp < now.      *)
validate_exp_ne(exp, nowTicks) == exp # timegm(nowTicks)
validate_exp(exp, nowTicks) == exp < timegm(nowTicks)

(* jose.jws.verify: the signature is recomputed over the presented claims. *)
verify_signature_none(token, key, alg) == TRUE
verify_signature(token, key, alg) ==
    token.sig = Sign(token.claims, key, alg)

(* jwt.decode(token, SECRET_KEY, algorithms=[ALGORITHM])                   *)
jwt_decode(token, key, alg, nowTicks) ==
    IF token.kind # "jwt" THEN JwtErr("JWTError")
    ELSE IF ~verify_signature(token, key, alg) THEN JwtErr("JWTError")
    ELSE IF validate_exp(token.claims.exp, nowTicks)
         THEN JwtErr("ExpiredSignatureError")
    ELSE IF ~(token.claims.sub = Absent \/ IsStr(token.claims.sub))
         THEN JwtErr("JWTClaimsError")
    ELSE JwtOk(token.claims)

-----------------------------------------------------------------------------
(* app/core/security.py *)

None == [kind |-> "None"]
Raised(exc) == [kind |-> "raise", exc |-> exc]

(* TokenData(email: Optional[str], user_id: Optional[int]): pydantic       *)
(* refuses a user_id that is not an integer.                               *)
TokenData(email, user_id) ==
    IF IsInt(user_id)
    THEN [kind |-> "TokenData", email |-> email.s, user_id |-> user_id.i]
    ELSE Raised("ValidationError")

(* create_access_token(data, expires_delta)                                *)
create_access_token_minus(data, expires_delta, cfg, nowTicks) ==
    LET expire == IF Truthy(expires_delta)
                  THEN nowTicks - expires_delta.ticks
                  ELSE nowTicks
                       - cfg.ACCESS_TOKEN_EXPIRE_MINUTES * SecondsPerMinute * Res
        to_encode == [sub |-> data.sub, user_id |-> data.user_id, exp |-> expire]
    IN jwt_encode(to_encode, cfg.SECRET_KEY, cfg.ALGORITHM)
create_access_token(data, expires_delta, cfg, nowTicks) ==
    LET expire == IF Truthy(expires_delta)
                  THEN nowTicks + expires_delta.ticks
                  ELSE nowTicks
                       + cfg.ACCESS_TOKEN_EXPIRE_MINUTES * SecondsPerMinute * Res
        to_encode == [sub |-> data.sub, user_id |-> data.user_id, exp |-> expire]
    IN jwt_encode(to_encode, cfg.SECRET_KEY, cfg.ALGORITHM)

(* create_access_token, lines 66 and 73: to_encode = data.copy() is a new  *)
(* dict, and to_encode.update({"exp": expire}) writes to that dict.  The   *)
(* two dicts are objects of a heap; the result is the caller's dict as the *)
(* call leaves it.                                                         *)
to_encode_alias == "data"
to_encode_ref == "to_encode"

data_after_create_access_token(data, expires_delta, cfg, nowTicks) ==
    LET expire == IF Truthy(expires_delta)
                  THEN nowTicks + expires_delta.ticks
                  ELSE nowTicks
                       + cfg.ACCESS_TOKEN_EXPIRE_MINUTES * SecondsPerMinute * Res
        heap == [o \in {"data", "to_encode"} |-> data]
        updated == [heap EXCEPT ![to_encode_ref] =
                       [sub |-> @.sub, user_id |-> @.user_id, exp |-> expire]]
    IN updated["data"]

(* decode_access_token(token)                                              *)
decode_access_token_expiry_raised(token, cfg, nowTicks) ==
    LET r == jwt_decode(token, cfg.SECRET_KEY, cfg.ALGORITHM, nowTicks)
    IN IF ~r.ok
       THEN IF r.error = "ExpiredSignatureError" THEN Raised(r.error) ELSE None
       ELSE IF r.payload.sub = Absent \/ r.payload.user_id = Absent THEN None
       ELSE TokenData(r.payload.sub, r.payload.user_id)
decode_access_token(token, cfg, nowTicks) ==
    LET r == jwt_decode(token, cfg.SECRET_KEY, cfg.ALGORITHM, nowTicks)
    IN IF ~r.ok THEN None
       ELSE IF r.payload.sub = Absent \/ r.payload.user_id = Absent THEN None
       ELSE TokenData(r.payload.sub, r.payload.user_id)

(* Token(access_token, token_type, expires_in): the login response         *)
Token(access_token, expires_in) ==
    [kind |-> "Token", access_token |-> access_token,
     token_type |-> "bearer", expires_in |-> expires_in]

HTTPException(status_code, detail) ==
    [kind |-> "HTTPException", status_code |-> status_code, detail |-> detail]

credentials_exception == HTTPException(401, "Could not validate credentials")

(* get_current_user(token): the user is built from the token's claims.     *)
get_current_user(token, cfg, nowTicks) ==
    LET token_data == decode_access_token(token, cfg, nowTicks)
    IN IF token_data = None THEN credentials_exception
       ELSE IF token_data.kind = "raise" THEN token_data
       ELSE [kind |-> "user", id |-> token_data.user_id,
             email |-> token_data.email, is_active |-> TRUE]

(* get_current_active_user(current_user = Depends(get_current_user))       *)
get_current_active_user(current_user) ==
    IF current_user.kind # "user" THEN current_user
    ELSE IF ~current_user.is_active THEN HTTPException(400, "Inactive user")
    ELSE current_user

-----------------------------------------------------------------------------
(* Passwords.  A password is described by its length in bytes, the content *)
(* of its first 72 bytes (head), the content of the bytes after them       *)
(* (tail, empty when there are none) and whether it holds a NUL byte.      *)

Pw(len, head, tail, nul) == [len |-> len, head |-> head, tail |-> tail, nul |-> nul]

TestEmail == "test@example.com"
TestPassword == Pw(12, "testpassword", "", FALSE)

Passwords ==
    { Pw(8, "A", "", FALSE), Pw(8, "B", "", FALSE),
      Pw(73, "A", "x", FALSE), Pw(73, "A", "y", FALSE),
      Pw(8, "N", "", TRUE),
      Pw(0, "", "", FALSE),
      Pw(101, "A", "x", FALSE) }

Salts == {"salt1", "salt2"}

(* The password hashing library (passlib CryptContext, scheme bcrypt) as   *)
(* app/core/security.py uses it.  bcrypt digests the salt and the first 72 *)
(* bytes of the password; the handler refuses a password holding a NUL.    *)
Min(a, b) == IF a < b THEN a ELSE b

bcrypt_checksum(salt, secret) ==
    [salt |-> salt, len |-> Min(secret.len, 72), head |-> secret.head]

(* get_password_hash(password): pwd_context.hash with a fresh salt         *)
get_password_hash_wrong_salt(password, salt) ==
    IF password.nul THEN Raised("PasswordValueError")
    ELSE [kind |-> "bcrypt", salt |-> salt,
          checksum |-> bcrypt_checksum("salt1", password)]
get_password_hash_fixed_salt(password, salt) ==
    IF password.nul THEN Raised("PasswordValueError")
    ELSE [kind |-> "bcrypt", salt |-> "salt1",
          checksum |-> bcrypt_checksum("salt1", password)]
get_password_hash(password, salt) ==
    IF password.nul THEN Raised("PasswordValueError")
    ELSE [kind |-> "bcrypt", salt |-> salt,
          checksum |-> bcrypt_checksum(salt, password)]

(* verify_password(plain_password, hashed_password): pwd_context.verify    *)
(* re-hashes with the salt embedded in the stored hash.                    *)
verify_password(plain_password, hashed_password) ==
    IF hashed_password.kind # "bcrypt" THEN Raised("UnknownHashError")
    ELSE IF plain_password.nul THEN Raised("PasswordValueError")
    ELSE [kind |-> "bool",
          value |-> bcrypt_checksum(hashed_password.salt, plain_password)
                      = hashed_password.checksum]

True == [kind |-> "bool", value |-> TRUE]
False == [kind |-> "bool", value |-> FALSE]

(* strings that are no hash of any scheme of pwd_context                   *)
MalformedHashes ==
    {[kind |-> "malformed", text |-> ""],
     [kind |-> "malformed", text |-> "not-a-hash"]}

-----------------------------------------------------------------------------
(* app/schemas/user.py *)

(* UserCreate: password = Field(..., min_length=8, max_length=100)         *)
UserCreate(email, password) ==
    IF password.len < 8 \/ password.len > 100
    THEN Raised("ValidationError")
    ELSE [kind |-> "UserCreate", email |-> email, password |-> password]

-----------------------------------------------------------------------------
(* app/auth/service.py: AuthService over the users table                   *)

(* db.query(User).filter(User.email == email).first()                      *)
Matching(table, email) == {i \in 1..Len(table) : table[i].email = email}

first_by_email(table, email) ==
    IF Matching(table, email) = {} THEN None
    ELSE LET i == CHOOSE k \in Matching(table, email) :
                      \A j \in Matching(table, email) : k <= j
         IN [kind |-> "User", row |-> table[i]]

(* AuthService.create_user: outcome and the table after the call           *)
create_user_unchecked(table, user_data, salt, nowTicks) ==
    LET hashed_password == get_password_hash(user_data.password, salt)
    IN IF hashed_password.kind = "raise"
       THEN [result |-> hashed_password, table |-> table]
       ELSE LET new_user == [id |-> Len(table) + 1,
                             email |-> user_data.email,
                             hashed_password |-> hashed_password,
                             is_active |-> TRUE,
                             updated_at |-> nowTicks]
            IN [result |-> [kind |-> "User", row |-> new_user],
                table |-> Append(table, new_user)]
create_user(table, user_data, salt, nowTicks) ==
    IF first_by_email(table, user_data.email) # None
    THEN [result |-> Raised("ValueError"), table |-> table]
    ELSE LET hashed_password == get_password_hash(user_data.password, salt)
         IN IF hashed_password.kind = "raise"
            THEN [result |-> hashed_password, table |-> table]
            ELSE LET new_user == [id |-> Len(table) + 1,
                                  email |-> user_data.email,
                                  hashed_password |-> hashed_password,
                                  is_active |-> TRUE,
                                  updated_at |-> nowTicks]
                 IN [result |-> [kind |-> "User", row |-> new_user],
                     table |-> Append(table, new_user)]

(* AuthService.authenticate_user                                           *)
authenticate_user(table, credentials) ==
    LET user == first_by_email(table, credentials.email)
    IN IF user = None THEN None
       ELSE LET v == verify_password(credentials.password, user.row.hashed_password)
            IN IF v.kind = "raise" THEN v
               ELSE IF ~v.value THEN None
               ELSE user

(* AuthService.update_user_password on the row at index i                  *)
update_user_password(table, i, new_password, salt, nowTicks) ==
    LET hashed_password == get_password_hash(new_password, salt)
    IN IF hashed_password.kind = "raise"
       THEN [result |-> hashed_password, table |-> table]
       ELSE LET updated == [table[i] EXCEPT !.hashed_password = hashed_password,
                                            !.updated_at = nowTicks]
            IN [result |-> [kind |-> "User", row |-> updated],
                table |-> [table EXCEPT ![i] = updated]]

(* AuthService.deactivate_user: outcome and the table after the call       *)
WithId(table, user_id) == {i \in 1..Len(table) : table[i].id = user_id}

deactivate_user_deleting(table, user_id, nowTicks) ==
    IF WithId(table, user_id) = {} THEN [result |-> None, table |-> table]
    ELSE LET i == CHOOSE k \in WithId(table, user_id) : TRUE
             updated == [table[i] EXCEPT !.is_active = FALSE,
                                         !.updated_at = nowTicks]
         IN [result |-> [kind |-> "User", row |-> updated],
             table |-> SubSeq(table, 1, i - 1)
                         \o SubSeq(table, i + 1, Len(table))]
deactivate_user(table, user_id, nowTicks) ==
    IF WithId(table, user_id) = {} THEN [result |-> None, table |-> table]
    ELSE LET i == CHOOSE k \in WithId(table, user_id) : TRUE
             updated == [table[i] EXCEPT !.is_active = FALSE,
                                         !.updated_at = nowTicks]
         IN [result |-> [kind |-> "User", row |-> updated],
             table |-> [table EXCEPT ![i] = updated]]

(* AuthService.create_token_for_user                                       *)
create_token_for_user(user, cfg, nowTicks) ==
    LET access_token ==
            create_access_token([sub |-> Str(user.email), user_id |-> Int_(user.id)],
                                NoDelta, cfg, nowTicks)
    IN Token(access_token, 3600)

-----------------------------------------------------------------------------
(* app/auth/routes.py *)

MockToken == Malformed("mock_jwt_token_for_testing")

(* POST /login: the mock authentication of routes.py                       *)
login_user(credentials) ==
    IF credentials.email = TestEmail /\ credentials.password = TestPassword
    THEN Token(MockToken, 3600)
    ELSE HTTPException(401, "Incorrect email or password")

(* POST /verify-token, behind Depends(get_current_active_user)             *)
verify_token(token, cfg, nowTicks) ==
    LET current_user == get_current_active_user(get_current_user(token, cfg, nowTicks))
    IN IF current_user.kind # "user" THEN current_user
       ELSE [kind |-> "ok", valid |-> TRUE,
             user_id |-> current_user.id, email |-> current_user.email]

(* POST /logout, behind Depends(get_current_active_user): the body is      *)
(* `pass`, the response 204 No Content.                                    *)
logout_user(token, cfg, nowTicks) ==
    LET current_user == get_current_active_user(get_current_user(token, cfg, nowTicks))
    IN IF current_user.kind # "user" THEN current_user
       ELSE [kind |-> "no_content", status_code |-> 204]

-----------------------------------------------------------------------------
(* app/models/query.py and app/models/data_source.py                       *)

DateTime(ticks) == [t |-> "datetime", ticks |-> ticks]

QueryStatus == {"pending", "running", "completed", "failed", "cancelled"}

(* Query(...) with the given status and every nullable column left unset;  *)
(* constructed_status is history: the status the object was made with      *)
Query(status) ==
    [status |-> status, result_data |-> None, row_count |-> None,
     execution_time_ms |-> None, error_message |-> None,
     completed_at |-> None, constructed_status |-> status]

(* Query.mark_completed: the object after the assignments                  *)
mark_completed_keeping_time(self, result_data, row_count, execution_time_ms, nowTicks) ==
    [self EXCEPT !.status = "completed",
                 !.result_data = result_data,
                 !.row_count = row_count,
                 !.execution_time_ms = execution_time_ms]
mark_completed(self, result_data, row_count, execution_time_ms, nowTicks) ==
    [self EXCEPT !.status = "completed",
                 !.completed_at = DateTime(nowTicks),
                 !.result_data = result_data,
                 !.row_count = row_count,
                 !.execution_time_ms = execution_time_ms]

(* Query.mark_failed: the object after the assignments                     *)
mark_failed(self, error_message, nowTicks) ==
    [self EXCEPT !.status = "failed",
                 !.completed_at = DateTime(nowTicks),
                 !.error_message = error_message]

(* save(): add, commit, refresh on a new session.  It ends normally, the   *)
(* object reloaded with the values just written, or it raises (no          *)
(* database, a constraint); the attributes stay as assigned either way.    *)
SaveOutcomes == {None, Raised("SQLAlchemyError")}

DataSourceStatus == {"active", "inactive", "error", "connecting"}

(* DataSource(...) with the given status, never tested                     *)
DataSource(status) ==
    [status |-> status, last_tested_at |-> None, last_error_message |-> None]

(* DataSource.update_status: `if error_message:` skips None and ""         *)
update_status(self, status, error_message, nowTicks) ==
    [self EXCEPT !.status = status,
                 !.last_tested_at = DateTime(nowTicks),
                 !.last_error_message =
                     IF error_message # None /\ error_message # Str("")
                     THEN error_message ELSE @]

-----------------------------------------------------------------------------
(* Token behaviours: one client holding one bearer token.                  *)

NoCall == [op |-> "none", at |-> 0, arg |-> None, result |-> None]

(* the request tasks that run concurrently, and a task with no call in     *)
(* progress                                                                *)
Tasks == {"task1", "task2"}
NoTask == [pc |-> "idle", op |-> "none", at |-> 0, arg |-> None,
           local |-> None, result |-> None]
NoInfo == [src |-> "none", at |-> 0, data |-> None, expires_delta |-> NoDelta,
           expired |-> -1, logout |-> FALSE]

Configs ==
    [SECRET_KEY : {DefaultSecret},
     ALGORITHM : {DefaultAlgorithm},
     ACCESS_TOKEN_EXPIRE_MINUTES : {DefaultExpireMinutes, 1}]

(* whether validating the token now fails on its expiry                    *)
ExpiredNow(token) ==
    LET r == jwt_decode(token, config.SECRET_KEY, config.ALGORITHM, now)
    IN ~r.ok /\ r.error = "ExpiredSignatureError"

(* history: the tick at which the held token was first refused as expired  *)
ExpiredSince(before) ==
    IF before = -1 /\ ExpiredNow(held) THEN now ELSE before

InitToken ==
    /\ config \in Configs
    /\ now = 0
    /\ held = Malformed("")
    /\ heldInfo = NoInfo
    /\ last = NoCall
    /\ users = <<>>
    /\ plain = <<>>
    /\ tasks = [t \in Tasks |-> NoTask]
    /\ schemas_db = <<>>
    /\ query = Query("pending")
    /\ data_source = DataSource("active")

(* a caller issues a token and keeps it as its bearer token                *)
IssueToken ==
    \E data \in DataChoices, expires_delta \in DeltaChoices :
        LET token == create_access_token(data, expires_delta, config, now)
        IN /\ last' = [op |-> "create_access_token", at |-> now,
                       arg |-> [data |-> data, expires_delta |-> expires_delta,
                               data_after |->
                                   data_after_create_access_token(
                                       data, expires_delta, config, now)],
                       result |-> token]
           /\ held' = token
           /\ heldInfo' = [src |-> "issued", at |-> now, data |-> data,
                           expires_delta |-> expires_delta, expired |-> -1,
                           logout |-> FALSE]
           /\ UNCHANGED <<config, now, dbVars, tasks, storeVars>>

(* decode_access_token is called on the held token                         *)
DecodeToken ==
    /\ last' = [op |-> "decode_access_token", at |-> now,
                arg |-> [token |-> held],
                result |-> decode_access_token(held, config, now)]
    /\ heldInfo' = [heldInfo EXCEPT !.expired = ExpiredSince(@)]
    /\ UNCHANGED <<config, now, held, dbVars, tasks, storeVars>>

(* a request to POST /verify-token bearing the held token                  *)
VerifyTokenRequest ==
    /\ last' = [op |-> "verify_token", at |-> now,
                arg |-> [token |-> held],
                result |-> verify_token(held, config, now)]
    /\ heldInfo' = [heldInfo EXCEPT !.expired = ExpiredSince(@)]
    /\ UNCHANGED <<config, now, held, dbVars, tasks, storeVars>>

(* a request to POST /logout bearing the held token; nothing is stored     *)
(* (LogoutRequest_rotating: a logout that replaces the signing secret)     *)
LogoutRequest_rotating ==
    /\ last' = [op |-> "logout_user", at |-> now,
                arg |-> [token |-> held],
                result |-> logout_user(held, config, now)]
    /\ heldInfo' = [heldInfo EXCEPT
                       !.expired = ExpiredSince(@),
                       !.logout = @ \/ logout_user(held, config, now).kind = "no_content"]
    /\ config' = [config EXCEPT !.SECRET_KEY = "rotated-at-logout"]
    /\ UNCHANGED <<now, held, dbVars, tasks, storeVars>>
LogoutRequest ==
    /\ last' = [op |-> "logout_user", at |-> now,
                arg |-> [token |-> held],
                result |-> logout_user(held, config, now)]
    /\ heldInfo' = [heldInfo EXCEPT
                       !.expired = ExpiredSince(@),
                       !.logout = @ \/ logout_user(held, config, now).kind = "no_content"]
    /\ UNCHANGED <<config, now, held, dbVars, tasks, storeVars>>

LoginChoices ==
    [email : {TestEmail, "u2@example.com"},
     password : {TestPassword, Pw(8, "A", "", FALSE)}]

(* POST /login; on success the client keeps the returned access token      *)
LoginRequest ==
    \E credentials \in LoginChoices :
        LET r == login_user(credentials)
        IN /\ last' = [op |-> "login_user", at |-> now,
                       arg |-> [credentials |-> credentials], result |-> r]
           /\ IF r.kind = "Token"
              THEN /\ held' = r.access_token
                   /\ heldInfo' = [src |-> "login", at |-> now,
                                   data |-> [sub |-> Str(credentials.email),
                                             user_id |-> Absent],
                                   expires_delta |-> Delta(r.expires_in * Res),
                                   expired |-> -1, logout |-> FALSE]
              ELSE UNCHANGED tokenVars
           /\ UNCHANGED <<config, now, dbVars, tasks, storeVars>>

(* Somebody without the secret alters the claims of the held token and     *)
(* keeps its signature.                                                    *)
TamperedClaims(c) ==
    ({[c EXCEPT !.sub = Str(s)] : s \in Subjects}
       \cup {[c EXCEPT !.user_id = Int_(u)] : u \in UserIds}
       \cup {[c EXCEPT !.exp = @ + 1]}) \ {c}

TamperToken ==
    /\ heldInfo.src = "issued"
    /\ \E c \in TamperedClaims(held.claims) :
          held' = [held EXCEPT !.claims = c]
    /\ heldInfo' = [NoInfo EXCEPT !.src = "tampered"]
    /\ last' = [NoCall EXCEPT !.op = "tamper", !.at = now]
    /\ UNCHANGED <<config, now, dbVars, tasks, storeVars>>

(* Tokens made without the server's secret: strings that are no JWT, and   *)
(* well-formed tokens signed with another key.                             *)
OtherSecret == "another-secret"

ForgedTokens ==
    {Malformed(""), Malformed("invalid.jwt.token")}
      \cup {jwt_encode([sub |-> Str(s), user_id |-> Int_(1), exp |-> MaxClock + Res],
                       OtherSecret, DefaultAlgorithm) : s \in Subjects}

ForgeToken ==
    /\ \E t \in ForgedTokens : held' = t
    /\ heldInfo' = [NoInfo EXCEPT !.src = "forged"]
    /\ last' = [NoCall EXCEPT !.op = "forge", !.at = now]
    /\ UNCHANGED <<config, now, dbVars, tasks, storeVars>>

(* time passes *)
Tick ==
    /\ now < MaxClock
    /\ now' = now + 1
    /\ UNCHANGED <<config, held, heldInfo, last, dbVars, tasks, storeVars>>

NextToken ==
    \/ IssueToken
    \/ DecodeToken
    \/ VerifyTokenRequest
    \/ LogoutRequest
    \/ LoginRequest
    \/ TamperToken
    \/ ForgeToken
    \/ Tick

Spec == InitToken /\ [][NextToken]_vars

-----------------------------------------------------------------------------
(* Properties of the token operations, checked under Spec.                 *)

Accepting(result) == result.kind \in {"TokenData", "ok"}

IsDecode == last.op = "decode_access_token"
IsValidation == last.op \in {"decode_access_token", "verify_token"}

(* the held token was issued for a string subject and an integer user id   *)
IssuedComplete ==
    /\ heldInfo.src = "issued"
    /\ IsStr(heldInfo.data.sub)
    /\ IsInt(heldInfo.data.user_id)

(* the lifetime, in ticks, that the caller of create_access_token asked for *)
AskedTicks(expires_delta, cfg) ==
    IF expires_delta.given THEN expires_delta.ticks
    ELSE cfg.ACCESS_TOKEN_EXPIRE_MINUTES * SecondsPerMinute * Res

WholeSecond(ticks) == ticks % Res = 0

(* C1: a token issued with a (positive) ttl is accepted by                 *)
(* decode_access_token exactly at the times strictly before issue time +   *)
(* ttl, and rejected at every time at or after it.  Stated for issue time, *)
(* ttl and validation time that are whole seconds.                         *)
C1_ExactExpiryBoundary ==
    (IsDecode /\ IssuedComplete /\ Truthy(heldInfo.expires_delta)
       /\ WholeSecond(heldInfo.at) /\ WholeSecond(heldInfo.expires_delta.ticks)
       /\ WholeSecond(last.at))
      => (Accepting(last.result)
            <=> last.at < heldInfo.at + heldInfo.expires_delta.ticks)

C3_NeverRaises ==
    IsDecode => last.result.kind # "raise"

(* C4: a token is accepted only if its signature is the signature of its   *)
(* own claims under the server's secret; a token whose claims were altered *)
(* after signing, or that was signed with another secret, is refused.      *)
C4_AcceptedOnlyIfSigned ==
    (IsValidation /\ Accepting(last.result))
      => /\ held.sig = Sign(held.claims, config.SECRET_KEY, config.ALGORITHM)
         /\ heldInfo.src \notin {"tampered", "forged"}

(* an unexpired token with altered claims has been presented and refused   *)
C4_Witness ==
    /\ IsDecode /\ heldInfo.src = "tampered"
    /\ held.claims.exp > timegm(now)
    /\ IsStr(held.claims.sub) /\ IsInt(held.claims.user_id)
    /\ last.result = None

(* C5: once a token has been refused as expired, it is refused at every    *)
(* later time.                                                             *)
C5_ExpiryIrreversible ==
    heldInfo.expired >= 0
      => /\ decode_access_token(held, config, now) = None
         /\ verify_token(held, config, now) = credentials_exception
         /\ IsValidation => ~Accepting(last.result)

(* a token refused as expired was presented again later, and refused       *)
C5_Witness ==
    /\ IsValidation /\ IssuedComplete
    /\ heldInfo.expired >= 0 /\ last.at > heldInfo.expired
    /\ ~Accepting(last.result)

(* C6: the exp claim is issue time + ttl for every ttl given, zero         *)
(* included, and issue time + the configured default when none is given.   *)
C6_ExpiryIsNowPlusTtl ==
    last.op = "create_access_token"
      => last.result.claims.exp
           = timegm(last.at + AskedTicks(last.arg.expires_delta, config))

(* C7: the token returned by a successful login is accepted by the         *)
(* protected endpoints on every request before its expiry, with the        *)
(* identity that logged in.                                                *)
C7_LoginTokenAccepted ==
    (last.op = "verify_token" /\ heldInfo.src = "login"
       /\ last.at < heldInfo.at + heldInfo.expires_delta.ticks)
      => (last.result.kind = "ok"
            /\ last.result.email = heldInfo.data.sub.s)

(* The ways a presented token fails, told from how the token came about    *)
(* and the time it is presented at.                                        *)
FailsMalformed == held.kind = "malformed"
FailsSignature ==
    /\ held.kind = "jwt"
    /\ held.sig # Sign(held.claims, config.SECRET_KEY, config.ALGORITHM)
FailsMissingClaim ==
    /\ heldInfo.src = "issued"
    /\ (heldInfo.data.sub = Absent \/ heldInfo.data.user_id = Absent)
FailsExpired(ticks) ==
    /\ heldInfo.src = "issued"
    /\ held.claims.exp < timegm(ticks)
TokenFails(ticks) ==
    FailsMalformed \/ FailsSignature \/ FailsMissingClaim \/ FailsExpired(ticks)

(* C11: a token that is malformed, wrongly signed, without a required      *)
(* claim or expired gets one and the same outcome: decode_access_token     *)
(* returns None, and get_current_user (so every endpoint behind it) raises *)
(* the one 401 "Could not validate credentials".                           *)
C11_FailuresCollapse ==
    /\ TokenFails(now)
          => /\ decode_access_token(held, config, now) = None
             /\ get_current_user(held, config, now) = credentials_exception
    /\ (IsDecode /\ TokenFails(last.at)) => last.result = None
    /\ (last.op \in {"verify_token", "logout_user"} /\ TokenFails(last.at))
          => last.result = credentials_exception

(* an expired token, complete and signed by the server, met the 401        *)
C11_Witness ==
    /\ last.op = "verify_token" /\ IssuedComplete
    /\ FailsExpired(last.at) /\ ~FailsSignature
    /\ last.result = credentials_exception

(* C14: logging out revokes nothing: a token the server issued, with which *)
(* a logout request succeeded, is accepted by every validation before its  *)
(* expiry, as it was before the logout.                                    *)
C14_LogoutRevokesNothing ==
    (heldInfo.logout /\ timegm(now) < held.claims.exp)
      => /\ Accepting(decode_access_token(held, config, now))
         /\ Accepting(verify_token(held, config, now))
         /\ IsValidation => Accepting(last.result)

(* a token was presented, and accepted, after the logout made with it      *)
C14_Witness ==
    /\ heldInfo.logout /\ last.op = "verify_token"
    /\ last.at > heldInfo.at
    /\ last.result.kind = "ok"

(* a step of IssueToken: not the passing of time, and it ends with a       *)
(* create_access_token call on record                                      *)
IssueStep == last'.op = "create_access_token" /\ now' = now

(* C18: issuing a token leaves the caller's claims mapping as it was (no   *)
(* exp key appears in it) and leaves the server's state as it was, so the  *)
(* token held before the call validates after it as it did before.         *)
C18_IssueHasNoSideEffect ==
    [][IssueStep
         => /\ last'.arg.data_after = last'.arg.data
            /\ config' = config /\ users' = users
            /\ decode_access_token(held, config', now')
                  = decode_access_token(held, config, now)]_vars

(* a token was issued, its caller's mapping is as passed, and the token    *)
(* validates                                                               *)
C18_Witness ==
    /\ last.op = "create_access_token"
    /\ last.arg.data_after = last.arg.data
    /\ Accepting(decode_access_token(last.result, config, now))

-----------------------------------------------------------------------------
(* Credential behaviours: registrations, logins and password changes over  *)
(* the users table.                                                        *)

Emails == {TestEmail, "u2@example.com"}

InitAuth ==
    /\ config = [SECRET_KEY |-> DefaultSecret, ALGORITHM |-> DefaultAlgorithm,
                 ACCESS_TOKEN_EXPIRE_MINUTES |-> DefaultExpireMinutes]
    /\ now = 0
    /\ held = Malformed("")
    /\ heldInfo = NoInfo
    /\ last = NoCall
    /\ users = <<>>
    /\ plain = <<>>
    /\ tasks = [t \in Tasks |-> NoTask]
    /\ schemas_db = <<>>
    /\ query = Query("pending")
    /\ data_source = DataSource("active")

(* registration: the request body is validated as a UserCreate, then       *)
(* AuthService.create_user runs                                            *)
CreateUser ==
    /\ Len(users) < MaxUsers
    /\ \E email \in Emails, password \in Passwords, salt \in Salts :
          LET user_data == UserCreate(email, password)
              r == IF user_data.kind = "raise"
                   THEN [result |-> user_data, table |-> users]
                   ELSE create_user(users, user_data, salt, now)
          IN /\ last' = [op |-> "create_user", at |-> now,
                         arg |-> [email |-> email, password |-> password,
                                  stored_before |-> users],
                         result |-> r.result]
             /\ users' = r.table
             /\ plain' = IF r.result.kind = "User"
                         THEN Append(plain, password) ELSE plain
    /\ UNCHANGED <<config, now, tokenVars, tasks, storeVars>>

AuthenticateUser ==
    /\ \E email \in Emails, password \in Passwords :
          LET credentials == [email |-> email, password |-> password]
          IN last' = [op |-> "authenticate_user", at |-> now,
                      arg |-> credentials,
                      result |-> authenticate_user(users, credentials)]
    /\ UNCHANGED <<config, now, tokenVars, dbVars, tasks, storeVars>>

UpdateUserPassword ==
    /\ \E i \in 1..Len(users), new_password \in Passwords, salt \in Salts :
          LET r == update_user_password(users, i, new_password, salt, now)
          IN /\ last' = [op |-> "update_user_password", at |-> now,
                         arg |-> [id |-> users[i].id, password |-> new_password,
                                  previous |-> plain[i],
                                  stored_before |-> users],
                         result |-> r.result]
             /\ users' = r.table
             /\ plain' = IF r.result.kind = "User"
                         THEN [plain EXCEPT ![i] = new_password] ELSE plain
    /\ UNCHANGED <<config, now, tokenVars, tasks, storeVars>>

(* tests/test_auth.py test_password_verification: hash, then verify        *)
PasswordVerification ==
    /\ \E password \in Passwords, salt \in Salts :
          LET h == get_password_hash(password, salt)
          IN last' = [op |-> "password_verification", at |-> now,
                      arg |-> [password |-> password],
                      result |-> IF h.kind = "raise" THEN h
                                 ELSE verify_password(password, h)]
    /\ UNCHANGED <<config, now, tokenVars, dbVars, tasks, storeVars>>

(* verify_password called on a hash argument: a stored hash, or a string  *)
(* that is no hash                                                         *)
VerifyPassword ==
    /\ \E password \in Passwords,
          hashed \in MalformedHashes
                       \cup {users[i].hashed_password : i \in 1..Len(users)} :
          last' = [op |-> "verify_password", at |-> now,
                   arg |-> [password |-> password, hashed_password |-> hashed],
                   result |-> verify_password(password, hashed)]
    /\ UNCHANGED <<config, now, tokenVars, dbVars, tasks, storeVars>>

(* get_password_hash called twice on one password.  Each call draws its    *)
(* salt from the system's random source (16 random bytes in bcrypt); a     *)
(* repeated draw is left out, as a forged signature is.                    *)
HashTwice ==
    /\ \E password \in Passwords, salt1 \in Salts :
       \E salt2 \in Salts \ {salt1} :
          last' = [op |-> "hash_twice", at |-> now,
                   arg |-> [password |-> password],
                   result |-> [kind |-> "pair",
                               first |-> get_password_hash(password, salt1),
                               second |-> get_password_hash(password, salt2)]]
    /\ UNCHANGED <<config, now, tokenVars, dbVars, tasks, storeVars>>

NextAuth ==
    \/ CreateUser
    \/ AuthenticateUser
    \/ UpdateUserPassword
    \/ PasswordVerification
    \/ VerifyPassword
    \/ HashTwice

SpecAuth == InitAuth /\ [][NextAuth]_vars

-----------------------------------------------------------------------------
(* Properties of the credential operations, checked under SpecAuth.        *)

IsAuthenticate == last.op = "authenticate_user"

Known(email) == first_by_email(users, email) # None

UnknownEmail == "nobody@example.com"

(* C8 as stated: for every password P, hashing P and verifying P against   *)
(* the hash gives true.                                                    *)
C8_HashThenVerify ==
    last.op = "password_verification" => last.result = True

(* C8 amended: for every password P that get_password_hash accepts (it     *)
(* raises for a password holding a NUL byte), verify(P, hash(P)) is true,  *)
(* and every stored credential authenticates the password it was made from *)
C8_HashableVerifies ==
    /\ (last.op = "password_verification" /\ ~last.arg.password.nul)
          => last.result = True
    /\ \A i \in 1..Len(users) :
          /\ verify_password(plain[i], users[i].hashed_password) = True
          /\ authenticate_user(users, [email |-> users[i].email,
                                       password |-> plain[i]])
               = [kind |-> "User", row |-> users[i]]
    /\ (IsAuthenticate /\ Known(last.arg.email)
          /\ last.arg.password
               = plain[first_by_email(users, last.arg.email).row.id])
          => last.result = first_by_email(users, last.arg.email)

(* a stored password longer than 72 bytes has logged its user in           *)
C8_Witness ==
    /\ IsAuthenticate
    /\ last.result.kind = "User"
    /\ last.arg.password = plain[last.result.row.id]
    /\ last.arg.password.len > 72
    /\ last.result.row.hashed_password.salt = "salt2"

(* C9: authenticate_user returns a user only for the password that the     *)
(* stored hash was made from.                                              *)
C9_OnlyStoredPasswordAuthenticates ==
    (IsAuthenticate /\ last.result.kind = "User")
      => last.arg.password = plain[last.result.row.id]

(* C10: a login attempt for a known identity whose password does not       *)
(* verify has the outcome that the same attempt has for an unknown         *)
(* identity.                                                               *)
C10_GenericFailure ==
    (IsAuthenticate /\ Known(last.arg.email)
       /\ verify_password(last.arg.password,
                          first_by_email(users, last.arg.email).row.hashed_password)
            # True)
      => last.result
           = authenticate_user(users, [email |-> UnknownEmail,
                                       password |-> last.arg.password])

(* C12: verify_password raises on no hash argument: for a hash argument    *)
(* that is no recognisable hash string it returns False.                   *)
C12_VerifyNeverThrows ==
    (last.op = "verify_password"
       /\ last.arg.hashed_password \in MalformedHashes
       /\ ~last.arg.password.nul)
      => last.result = False

(* C13: a password that is empty or longer than the schema's maximum is    *)
(* refused on both paths that hash a password, create_user at registration *)
(* and update_user_password: the call raises (and so stores nothing).      *)
C13_InvalidNeverHashed ==
    (last.op \in {"create_user", "update_user_password"}
       /\ (last.arg.password.len = 0 \/ last.arg.password.len > 100))
      => last.result.kind = "raise"

-----------------------------------------------------------------------------
(* Concurrent registrations: each request task runs AuthService.create_user *)
(* on its own database session, and the tasks' statements interleave.      *)

(* INSERT INTO users under the unique index ix_users_email: db.add and     *)
(* db.commit of create_user.  A row whose email is already stored is       *)
(* refused by the database and the commit raises.                          *)
insert_user_no_index(table, new_user) ==
    LET row == [new_user EXCEPT !.id = Len(table) + 1]
    IN [result |-> [kind |-> "User", row |-> row], table |-> Append(table, row)]
insert_user(table, new_user) ==
    IF Matching(table, new_user.email) # {}
    THEN [result |-> Raised("IntegrityError"), table |-> table]
    ELSE LET row == [new_user EXCEPT !.id = Len(table) + 1]
         IN [result |-> [kind |-> "User", row |-> row],
             table |-> Append(table, row)]

RacePasswords == {Pw(8, "A", "", FALSE), Pw(8, "B", "", FALSE)}

(* create_user, first statement: the query for an existing user with the   *)
(* email.  When one is found the call ends with ValueError.                *)
CreateUserQuery(t) ==
    /\ tasks[t].pc = "idle"
    /\ Len(users) < MaxUsers
    /\ \E email \in Emails, password \in RacePasswords :
          LET user_data == UserCreate(email, password)
              existing_user == first_by_email(users, email)
          IN IF existing_user # None
             THEN /\ last' = [op |-> "create_user", at |-> now,
                              arg |-> [email |-> email, password |-> password],
                              result |-> Raised("ValueError")]
                  /\ UNCHANGED tasks
             ELSE /\ tasks' = [tasks EXCEPT ![t] =
                                 [NoTask EXCEPT !.pc = "checked",
                                                !.op = "create_user",
                                                !.arg = user_data]]
                  /\ UNCHANGED last
    /\ UNCHANGED <<config, now, tokenVars, dbVars, storeVars>>

(* create_user, the statements after the check: hash, db.add, db.commit    *)
CreateUserCommit(t) ==
    /\ tasks[t].pc = "checked"
    /\ \E salt \in Salts :
          LET user_data == tasks[t].arg
              new_user == [id |-> 0,
                           email |-> user_data.email,
                           hashed_password |->
                               get_password_hash(user_data.password, salt),
                           is_active |-> TRUE,
                           updated_at |-> now]
              r == insert_user(users, new_user)
          IN /\ last' = [op |-> "create_user", at |-> now,
                         arg |-> [email |-> user_data.email,
                                  password |-> user_data.password],
                         result |-> r.result]
             /\ users' = r.table
             /\ plain' = IF r.result.kind = "User"
                         THEN Append(plain, user_data.password) ELSE plain
    /\ tasks' = [tasks EXCEPT ![t] = NoTask]
    /\ UNCHANGED <<config, now, tokenVars, storeVars>>

NextRace ==
    \/ \E t \in Tasks : CreateUserQuery(t)
    \/ \E t \in Tasks : CreateUserCommit(t)

SpecRace == InitAuth /\ [][NextRace]_vars

(* C15: whatever the interleaving of concurrent create_user calls, no two  *)
(* rows of the users table hold the same email.                            *)
C15_EmailUnique ==
    \A i, j \in 1..Len(users) : users[i].email = users[j].email => i = j

(* two calls passed the existence check for one email; the first stored    *)
(* its row and the second was refused at commit                            *)
C15_Witness ==
    /\ last.op = "create_user"
    /\ last.result = Raised("IntegrityError")
    /\ Matching(users, last.arg.email) # {}

-----------------------------------------------------------------------------
(* Account lifecycle: rows are created, their password changed, and they   *)
(* are deactivated, while time passes.                                     *)

RegisterUser ==
    /\ Len(users) < MaxUsers
    /\ \E email \in Emails, password \in RacePasswords :
          LET r == create_user(users, UserCreate(email, password), "salt1", now)
          IN /\ last' = [op |-> "create_user", at |-> now,
                         arg |-> [email |-> email, password |-> password],
                         result |-> r.result]
             /\ users' = r.table
             /\ plain' = IF r.result.kind = "User"
                         THEN Append(plain, password) ELSE plain
    /\ UNCHANGED <<config, now, tokenVars, tasks, storeVars>>

ChangePassword ==
    /\ \E i \in 1..Len(users), new_password \in RacePasswords :
          LET r == update_user_password(users, i, new_password, "salt1", now)
          IN /\ last' = [op |-> "update_user_password", at |-> now,
                         arg |-> [id |-> users[i].id, password |-> new_password],
                         result |-> r.result]
             /\ users' = r.table
             /\ plain' = [plain EXCEPT ![i] = new_password]
    /\ UNCHANGED <<config, now, tokenVars, tasks, storeVars>>

(* deactivate_user on the id of a stored user or on an id of none          *)
DeactivateUser ==
    /\ \E user_id \in 1..(MaxUsers + 1) :
          LET r == deactivate_user(users, user_id, now)
          IN /\ last' = [op |-> "deactivate_user", at |-> now,
                         arg |-> [user_id |-> user_id],
                         result |-> r.result]
             /\ users' = r.table
    /\ UNCHANGED <<config, now, tokenVars, plain, tasks, storeVars>>

NextLife ==
    \/ RegisterUser
    \/ ChangePassword
    \/ DeactivateUser
    \/ Tick

SpecLife == InitAuth /\ [][NextLife]_vars

(* a step of DeactivateUser: not the passing of time, and it ends with a   *)
(* deactivate_user call on record                                          *)
DeactivateStep == last'.op = "deactivate_user" /\ now' = now

(* C16: no operation of the service removes a row of the users table or    *)
(* changes a row's id or email; deactivate_user on a stored id sets that   *)
(* row's is_active to false and its updated_at to the time of the call and *)
(* changes nothing else (email, hashed_password, the other rows), and on   *)
(* an id of no row it returns None and changes nothing.                    *)
C16_NeverDeleted ==
    [][/\ Len(users') >= Len(users)
       /\ \A i \in 1..Len(users) :
             /\ users'[i].id = users[i].id
             /\ users'[i].email = users[i].email
       /\ DeactivateStep
            => IF WithId(users, last'.arg.user_id) = {}
               THEN last'.result = None /\ users' = users
               ELSE \A i \in 1..Len(users) :
                      IF users[i].id = last'.arg.user_id
                      THEN /\ users'[i] = [users[i] EXCEPT
                                              !.is_active = FALSE,
                                              !.updated_at = now]
                           /\ last'.result = [kind |-> "User",
                                               row |-> users'[i]]
                      ELSE users'[i] = users[i]]_vars

(* a user stored beside another user has been deactivated after the clock  *)
(* moved: the row is still there, inactive, stamped with the time of the   *)
(* call, its hash still that of its password                               *)
C16_Witness ==
    /\ last.op = "deactivate_user" /\ last.result.kind = "User"
    /\ Len(users) = MaxUsers
    /\ last.at > 0
    /\ \E i \in 1..Len(users) :
          /\ users[i] = last.result.row
          /\ ~users[i].is_active
          /\ users[i].updated_at = last.at
          /\ verify_password(plain[i], users[i].hashed_password) = True

-----------------------------------------------------------------------------
(* Sessions of stored users: a user logs in through the service, keeps the *)
(* token, and calls an endpoint behind get_current_active_user; accounts   *)
(* are deactivated meanwhile.                                              *)

(* login through AuthService: authenticate_user, then                      *)
(* create_token_for_user for the user found                                *)
ServiceLogin ==
    /\ \E email \in Emails, password \in RacePasswords :
          LET credentials == [email |-> email, password |-> password]
              user == authenticate_user(users, credentials)
              token == create_token_for_user(user.row, config, now)
          IN IF user.kind = "User"
             THEN /\ held' = token.access_token
                  /\ heldInfo' = [NoInfo EXCEPT
                                     !.src = "service", !.at = now,
                                     !.data = [sub |-> Str(user.row.email),
                                               user_id |-> Int_(user.row.id)]]
                  /\ last' = [op |-> "service_login", at |-> now,
                              arg |-> credentials, result |-> token]
             ELSE /\ UNCHANGED tokenVars
                  /\ last' = [op |-> "service_login", at |-> now,
                              arg |-> credentials, result |-> user]
    /\ UNCHANGED <<config, now, dbVars, tasks, storeVars>>

NextSession ==
    \/ RegisterUser
    \/ ServiceLogin
    \/ DeactivateUser
    \/ VerifyTokenRequest
    \/ LogoutRequest

SpecSession == InitAuth /\ [][NextSession]_vars

(* the held token is the unexpired token of a stored user whose account is *)
(* deactivated                                                             *)
HolderDeactivated ==
    /\ heldInfo.src = "service"
    /\ timegm(now) < held.claims.exp
    /\ \E i \in 1..Len(users) :
          /\ users[i].id = heldInfo.data.user_id.i
          /\ users[i].email = heldInfo.data.sub.s
          /\ ~users[i].is_active

(* C17: a request that bears the valid, unexpired token of a deactivated   *)
(* user is refused by get_current_active_user with 400 "Inactive user", on *)
(* every endpoint behind that dependency.                                  *)
C17_InactiveUserRefused ==
    (last.op \in {"verify_token", "logout_user"} /\ HolderDeactivated)
      => last.result = HTTPException(400, "Inactive user")

-----------------------------------------------------------------------------
(* Concurrent calls of the functions of app/core/security.py: each request *)
(* task runs one call at a time, a call takes two steps, and the steps of  *)
(* the tasks interleave with each other and with the clock.  What a call   *)
(* keeps between its steps is in its own local variables.                  *)

StartupConfig ==
    [SECRET_KEY |-> DefaultSecret, ALGORITHM |-> DefaultAlgorithm,
     ACCESS_TOKEN_EXPIRE_MINUTES |-> DefaultExpireMinutes]

TaskData == [sub |-> Str(TestEmail), user_id |-> Int_(1)]

TaskTokens ==
    {create_access_token(TaskData, Delta(Res), StartupConfig, 0), Malformed("")}

TaskHashes ==
    {get_password_hash(Pw(8, "A", "", FALSE), "salt1"),
     [kind |-> "malformed", text |-> "not-a-hash"]}

Calls ==
    {[op |-> "create_access_token",
      arg |-> [data |-> TaskData, expires_delta |-> d]] : d \in {NoDelta, Delta(Res)}}
      \cup {[op |-> "decode_access_token", arg |-> [token |-> t]] : t \in TaskTokens}
      \cup {[op |-> "get_password_hash", arg |-> [password |-> p]] :
                p \in {Pw(8, "A", "", FALSE), Pw(8, "N", "", TRUE)}}
      \cup {[op |-> "verify_password",
             arg |-> [password |-> p, hashed_password |-> h]] :
                p \in RacePasswords, h \in TaskHashes}

(* the first step of a call: what it reads and keeps in its locals         *)
(*   create_access_token: to_encode with the exp made from utcnow()        *)
(*   decode_access_token: the outcome of jwt.decode                        *)
(*   get_password_hash:   the salt drawn                                   *)
(*   verify_password:     whether the hash string was identified           *)
first_step(call, cfg, nowTicks, salt) ==
    CASE call.op = "create_access_token" ->
           [to_encode |->
               [sub |-> call.arg.data.sub, user_id |-> call.arg.data.user_id,
                exp |-> IF Truthy(call.arg.expires_delta)
                        THEN nowTicks + call.arg.expires_delta.ticks
                        ELSE nowTicks + cfg.ACCESS_TOKEN_EXPIRE_MINUTES
                                          * SecondsPerMinute * Res]]
      [] call.op = "decode_access_token" ->
           [payload |-> jwt_decode(call.arg.token, cfg.SECRET_KEY,
                                   cfg.ALGORITHM, nowTicks)]
      [] call.op = "get_password_hash" -> [salt |-> salt]
      [] call.op = "verify_password" ->
           [identified |-> call.arg.hashed_password.kind = "bcrypt"]

(* the second step of a call: its result, from its locals                  *)
second_step(call, local, cfg) ==
    CASE call.op = "create_access_token" ->
           jwt_encode(local.to_encode, cfg.SECRET_KEY, cfg.ALGORITHM)
      [] call.op = "decode_access_token" ->
           IF ~local.payload.ok THEN None
           ELSE IF local.payload.payload.sub = Absent
                   \/ local.payload.payload.user_id = Absent THEN None
           ELSE TokenData(local.payload.payload.sub,
                          local.payload.payload.user_id)
      [] call.op = "get_password_hash" ->
           IF call.arg.password.nul THEN Raised("PasswordValueError")
           ELSE [kind |-> "bcrypt", salt |-> local.salt,
                 checksum |-> bcrypt_checksum(local.salt, call.arg.password)]
      [] call.op = "verify_password" ->
           IF ~local.identified THEN Raised("UnknownHashError")
           ELSE IF call.arg.password.nul THEN Raised("PasswordValueError")
           ELSE [kind |-> "bool",
                 value |-> bcrypt_checksum(call.arg.hashed_password.salt,
                                           call.arg.password)
                             = call.arg.hashed_password.checksum]

TaskBegin(t) ==
    /\ tasks[t].pc = "idle"
    /\ \E call \in Calls, salt \in Salts :
          tasks' = [tasks EXCEPT ![t] =
                      [pc |-> "running", op |-> call.op, at |-> now,
                       arg |-> call.arg,
                       local |-> first_step(call, config, now, salt),
                       result |-> None]]
    /\ UNCHANGED <<config, now, tokenVars, last, dbVars, storeVars>>

(* TaskFinish_shared: the locals kept in one place for all tasks           *)
TaskFinish_shared(t) ==
    /\ tasks[t].pc = "running"
    /\ \E u \in Tasks :
          /\ tasks[u].pc = "running" /\ tasks[u].op = tasks[t].op
          /\ tasks' = [tasks EXCEPT ![t] =
                         [@ EXCEPT !.pc = "done",
                                   !.result = second_step(tasks[t], tasks[u].local,
                                                          config)]]
    /\ UNCHANGED <<config, now, tokenVars, last, dbVars, storeVars>>
TaskFinish(t) ==
    /\ tasks[t].pc = "running"
    /\ tasks' = [tasks EXCEPT ![t] =
                   [@ EXCEPT !.pc = "done",
                             !.result = second_step(tasks[t], tasks[t].local,
                                                    config)]]
    /\ UNCHANGED <<config, now, tokenVars, last, dbVars, storeVars>>

(* the caller takes the result; the task is free for the next call         *)
TaskReturn(t) ==
    /\ tasks[t].pc = "done"
    /\ tasks' = [tasks EXCEPT ![t] = NoTask]
    /\ UNCHANGED <<config, now, tokenVars, last, dbVars, storeVars>>

NextTasks ==
    \/ \E t \in Tasks : TaskBegin(t)
    \/ \E t \in Tasks : TaskFinish(t)
    \/ \E t \in Tasks : TaskReturn(t)
    \/ Tick

SpecTasks == InitAuth /\ [][NextTasks]_vars

(* the result of the call of a task, had it run by itself at the time it   *)
(* began                                                                   *)
Alone(task) ==
    CASE task.op = "create_access_token" ->
           create_access_token(task.arg.data, task.arg.expires_delta,
                               StartupConfig, task.at)
      [] task.op = "decode_access_token" ->
           decode_access_token(task.arg.token, StartupConfig, task.at)
      [] task.op = "get_password_hash" ->
           get_password_hash(task.arg.password, task.local.salt)
      [] task.op = "verify_password" ->
           verify_password(task.arg.password, task.arg.hashed_password)

EachAlone == \A t \in Tasks : tasks[t].pc = "done" => tasks[t].result = Alone(tasks[t])

(* C19: with calls of get_password_hash, verify_password,                  *)
(* create_access_token and decode_access_token in progress in several      *)
(* tasks at once, under every interleaving of their steps, each call       *)
(* returns what it returns when run by itself at the time it began, and    *)
(* the secret, the algorithm and the default lifetime keep their startup   *)
(* values.                                                                 *)
C19_ConcurrentCallsIsolated ==
    [][config' = config /\ config' = StartupConfig /\ EachAlone']_vars

(* a call of create_access_token began while an earlier call of it was in  *)
(* progress in another task, and ended, with its own result, while that    *)
(* earlier call was still in progress                                      *)
C19_Witness ==
    \E t \in Tasks, u \in Tasks :
        /\ t # u
        /\ tasks[t].pc = "running" /\ tasks[u].pc = "done"
        /\ tasks[t].op = "create_access_token" /\ tasks[u].op = tasks[t].op
        /\ tasks[t].at < tasks[u].at
        /\ tasks[u].result = Alone(tasks[u])
        /\ tasks[u].result.claims.exp # timegm(tasks[t].local.to_encode.exp)

-----------------------------------------------------------------------------
(* app/api/v1/schema.py: the schema endpoints over schemas_db.  Every      *)
(* endpoint is behind get_current_active_user; the requests here are those *)
(* that passed it.                                                         *)

MaxSchemas == 2   \* schemas the store may hold when a create is accepted

SchemaField(name, primary_key) ==
    [name |-> name, type |-> "string", primary_key |-> primary_key]
SchemaIndex(name, fields) == [name |-> name, fields |-> fields]

(* an Optional request attribute: left out (None), or given                *)
Unset == [given |-> FALSE]
Given(v) == [given |-> TRUE, v |-> v]

FieldLists ==
    { <<>>,
      <<SchemaField("id", TRUE)>>,
      <<SchemaField("id", TRUE), SchemaField("name", FALSE)>>,
      <<SchemaField("name", FALSE)>>,
      <<SchemaField("id", TRUE), SchemaField("id", FALSE)>> }

IndexLists ==
    { <<>>,
      <<SchemaIndex("by_name", <<"name">>)>>,
      <<SchemaIndex("empty", <<>>)>> }

Descriptions == {Str(""), Str("orders")}

(* SchemaCreateRequest: the validator on fields refuses an empty list      *)
SchemaCreateRequest(description, fields, indexes) ==
    IF fields = <<>> THEN Raised("ValidationError")
    ELSE [kind |-> "SchemaCreateRequest", name |-> "orders",
          description |-> description, platform_id |-> "p1",
          fields |-> fields, indexes |-> indexes]

(* SchemaUpdateRequest: three Optional attributes                          *)
SchemaUpdateRequest(description, fields, indexes) ==
    [kind |-> "SchemaUpdateRequest", description |-> description,
     fields |-> fields, indexes |-> indexes]

has_primary_key(fields) == \E i \in 1..Len(fields) : fields[i].primary_key

(* len(field_names) != len(set(field_names))                               *)
field_names(fields) == {fields[i].name : i \in 1..Len(fields)}
names_unique(fields) == Len(fields) = Cardinality(field_names(fields))

(* _generate_schema_id: f"schema_{len(schemas_db) + 1}"                    *)
generate_schema_id(db) == "schema_" \o ToString(Cardinality(DOMAIN db) + 1)

(* _get_timestamp: the ISO text of utcnow()                                *)
get_timestamp(nowTicks) == [iso |-> nowTicks]

(* schemas_db[schema_id] = schema                                          *)
Put(db, schema_id, schema) ==
    [k \in DOMAIN db \cup {schema_id} |-> IF k = schema_id THEN schema ELSE db[k]]

(* del schemas_db[schema_id]                                               *)
Del(db, schema_id) == [k \in DOMAIN db \ {schema_id} |-> db[k]]

NotFound == HTTPException(404, "Schema not found")
NoPrimaryKey == HTTPException(400, "Schema must have at least one primary key field")
NotUnique == HTTPException(400, "Field names must be unique")

(* create_schema: outcome and the store after the call                     *)
create_schema(db, request, nowTicks) ==
    IF ~has_primary_key(request.fields) THEN [result |-> NoPrimaryKey, db |-> db]
    ELSE IF ~names_unique(request.fields) THEN [result |-> NotUnique, db |-> db]
    ELSE LET schema_id == generate_schema_id(db)
             schema == [kind |-> "SchemaResponse", id |-> schema_id,
                        name |-> request.name,
                        description |-> request.description,
                        platform_id |-> request.platform_id,
                        fields |-> request.fields,
                        indexes |-> request.indexes,
                        status |-> "active",
                        created_at |-> get_timestamp(nowTicks),
                        updated_at |-> get_timestamp(nowTicks)]
         IN [result |-> schema, db |-> Put(db, schema_id, schema)]

(* update_schema: outcome and the store after the call.  The schema object *)
(* in the store is the one the handler assigns to.                         *)
update_schema_description_first(db, schema_id, request, nowTicks) ==
    IF schema_id \notin DOMAIN db THEN [result |-> NotFound, db |-> db]
    ELSE LET described ==
                 [db[schema_id] EXCEPT
                     !.description = IF request.description.given
                                     THEN request.description.v ELSE @,
                     !.indexes = IF request.indexes.given
                                 THEN request.indexes.v ELSE @]
             early == Put(db, schema_id, described)
         IN IF request.fields.given /\ ~has_primary_key(request.fields.v)
            THEN [result |-> NoPrimaryKey, db |-> early]
            ELSE IF request.fields.given /\ ~names_unique(request.fields.v)
            THEN [result |-> NotUnique, db |-> early]
            ELSE LET schema ==
                         [described EXCEPT
                             !.fields = IF request.fields.given
                                        THEN request.fields.v ELSE @,
                             !.updated_at = get_timestamp(nowTicks)]
                 IN [result |-> schema, db |-> Put(db, schema_id, schema)]
update_schema_unchecked(db, schema_id, request, nowTicks) ==
    IF schema_id \notin DOMAIN db THEN [result |-> NotFound, db |-> db]
    ELSE LET schema ==
                 [db[schema_id] EXCEPT
                     !.fields = IF request.fields.given
                                THEN request.fields.v ELSE @,
                     !.description = IF request.description.given
                                     THEN request.description.v ELSE @,
                     !.indexes = IF request.indexes.given
                                 THEN request.indexes.v ELSE @,
                     !.updated_at = get_timestamp(nowTicks)]
         IN [result |-> schema, db |-> Put(db, schema_id, schema)]
update_schema(db, schema_id, request, nowTicks) ==
    IF schema_id \notin DOMAIN db THEN [result |-> NotFound, db |-> db]
    ELSE IF request.fields.given /\ ~has_primary_key(request.fields.v)
    THEN [result |-> NoPrimaryKey, db |-> db]
    ELSE IF request.fields.given /\ ~names_unique(request.fields.v)
    THEN [result |-> NotUnique, db |-> db]
    ELSE LET schema ==
                 [db[schema_id] EXCEPT
                     !.fields = IF request.fields.given
                                THEN request.fields.v ELSE @,
                     !.description = IF request.description.given
                                     THEN request.description.v ELSE @,
                     !.indexes = IF request.indexes.given
                                 THEN request.indexes.v ELSE @,
                     !.updated_at = get_timestamp(nowTicks)]
         IN [result |-> schema, db |-> Put(db, schema_id, schema)]

(* delete_schema: outcome and the store after the call                     *)
delete_schema(db, schema_id) ==
    IF schema_id \notin DOMAIN db THEN [result |-> NotFound, db |-> db]
    ELSE [result |-> [kind |-> "message",
                      message |-> "Schema deleted successfully"],
          db |-> Del(db, schema_id)]

(* validate_schema: the errors of one index, then of the index list        *)
MissingFields(index, names, k) ==
    IF index.fields[k] \in names THEN <<>>
    ELSE <<"Index '" \o index.name \o "' references non-existent field '"
             \o index.fields[k] \o "'">>

RECURSIVE MissingFrom(_, _, _)
MissingFrom(index, names, k) ==
    IF k > Len(index.fields) THEN <<>>
    ELSE MissingFields(index, names, k) \o MissingFrom(index, names, k + 1)

index_errors(index, names) ==
    (IF index.fields = <<>>
     THEN <<"Index '" \o index.name \o "' must have at least one field">>
     ELSE <<>>)
      \o MissingFrom(index, names, 1)

RECURSIVE indexes_errors(_, _, _)
indexes_errors(indexes, names, k) ==
    IF k > Len(indexes) THEN <<>>
    ELSE index_errors(indexes[k], names) \o indexes_errors(indexes, names, k + 1)

primary_keys(fields) == {i \in 1..Len(fields) : fields[i].primary_key}

validate_schema(db, schema_id) ==
    IF schema_id \notin DOMAIN db THEN NotFound
    ELSE LET schema == db[schema_id]
             errors ==
                 (IF schema.fields = <<>>
                  THEN <<"Schema must have at least one field">> ELSE <<>>)
                   \o (IF primary_keys(schema.fields) = {}
                       THEN <<"Schema must have at least one primary key">>
                       ELSE <<>>)
                   \o (IF ~names_unique(schema.fields)
                       THEN <<"Field names must be unique">> ELSE <<>>)
                   \o indexes_errors(schema.indexes,
                                     field_names(schema.fields), 1)
             warnings ==
                 IF Cardinality(primary_keys(schema.fields)) > 1
                 THEN <<"Multiple primary keys detected">> ELSE <<>>
         IN [kind |-> "validation", valid |-> Len(errors) = 0,
             errors |-> errors, warnings |-> warnings,
             schema_id |-> schema_id]

SchemaIds == {"schema_" \o ToString(n) : n \in 1..(MaxSchemas + 1)}

CreateSchema ==
    /\ Cardinality(DOMAIN schemas_db) < MaxSchemas
    /\ \E fields \in FieldLists, indexes \in IndexLists :
          LET request == SchemaCreateRequest(Str(""), fields, indexes)
              r == IF request.kind = "raise"
                   THEN [result |-> request, db |-> schemas_db]
                   ELSE create_schema(schemas_db, request, now)
          IN /\ last' = [op |-> "create_schema", at |-> now,
                         arg |-> [fields |-> fields,
                                  stored_before |-> DOMAIN schemas_db],
                         result |-> r.result]
             /\ schemas_db' = r.db
    /\ UNCHANGED <<config, now, tokenVars, dbVars, tasks, query, data_source>>

UpdateChoices ==
    {SchemaUpdateRequest(d, f, x) :
        d \in {Unset} \cup {Given(v) : v \in Descriptions},
        f \in {Unset} \cup {Given(v) : v \in FieldLists},
        x \in {Unset} \cup {Given(v) : v \in IndexLists}}

(* the requests that leave the description alone                           *)
StructureChoices == {request \in UpdateChoices : ~request.description.given}

UpdateWith(requests) ==
    /\ \E schema_id \in SchemaIds, request \in requests :
          LET r == update_schema(schemas_db, schema_id, request, now)
          IN /\ last' = [op |-> "update_schema", at |-> now,
                         arg |-> [schema_id |-> schema_id,
                                  fields_given |-> request.fields.given,
                                  more |-> request.description.given
                                             \/ request.indexes.given],
                         result |-> r.result]
             /\ schemas_db' = r.db
    /\ UNCHANGED <<config, now, tokenVars, dbVars, tasks, query, data_source>>

UpdateSchema == UpdateWith(UpdateChoices)

UpdateSchemaStructure == UpdateWith(StructureChoices)

DeleteSchema ==
    /\ \E schema_id \in SchemaIds :
          LET r == delete_schema(schemas_db, schema_id)
          IN /\ last' = [op |-> "delete_schema", at |-> now,
                         arg |-> [schema_id |-> schema_id],
                         result |-> r.result]
             /\ schemas_db' = r.db
    /\ UNCHANGED <<config, now, tokenVars, dbVars, tasks, query, data_source>>

ValidateSchema ==
    /\ \E schema_id \in SchemaIds :
          last' = [op |-> "validate_schema", at |-> now,
                   arg |-> [schema_id |-> schema_id],
                   result |-> validate_schema(schemas_db, schema_id)]
    /\ UNCHANGED <<config, now, tokenVars, dbVars, tasks, storeVars>>

NextSchema ==
    \/ CreateSchema
    \/ UpdateSchemaStructure
    \/ DeleteSchema
    \/ ValidateSchema

SpecSchema == InitAuth /\ [][NextSchema]_vars

(* the schema store one second after two schemas were created in it        *)
TwoSchemas ==
    LET request == SchemaCreateRequest(Str(""), <<SchemaField("id", TRUE)>>, <<>>)
        first == create_schema(<<>>, request, 0).db
    IN create_schema(first, request, 0).db

InitSchemaUpdate ==
    /\ config = [SECRET_KEY |-> DefaultSecret, ALGORITHM |-> DefaultAlgorithm,
                 ACCESS_TOKEN_EXPIRE_MINUTES |-> DefaultExpireMinutes]
    /\ now = Res
    /\ held = Malformed("")
    /\ heldInfo = NoInfo
    /\ last = NoCall
    /\ users = <<>>
    /\ plain = <<>>
    /\ tasks = [t \in Tasks |-> NoTask]
    /\ schemas_db = TwoSchemas
    /\ query = Query("pending")
    /\ data_source = DataSource("active")

NextSchemaUpdate ==
    \/ UpdateSchema
    \/ ValidateSchema

SpecSchemaUpdate == InitSchemaUpdate /\ [][NextSchemaUpdate]_vars

-----------------------------------------------------------------------------
(* Properties of the schema store.                                         *)

Created == last.op = "create_schema" /\ last.result.kind = "SchemaResponse"

(* C21: the id create_schema gives a new schema is the id of no schema     *)
(* stored at the time of the call, so no stored schema is overwritten and  *)
(* the store holds one schema more after the call.                         *)
C21_CreateNeverOverwrites ==
    Created
      => /\ last.result.id \notin last.arg.stored_before
         /\ Cardinality(DOMAIN schemas_db)
              = Cardinality(last.arg.stored_before) + 1

(* C22: every stored schema has at least one field, at least one primary   *)
(* key field, and field names that differ from each other.                 *)
C22_StoredSchemasWellFormed ==
    \A k \in DOMAIN schemas_db :
        /\ Len(schemas_db[k].fields) >= 1
        /\ \E i \in 1..Len(schemas_db[k].fields) :
              schemas_db[k].fields[i].primary_key
        /\ \A i, j \in 1..Len(schemas_db[k].fields) :
              schemas_db[k].fields[i].name = schemas_db[k].fields[j].name
                => i = j

(* an update that carried a field list was accepted and stored two fields  *)
C22_Witness ==
    /\ last.op = "update_schema" /\ last.arg.fields_given
    /\ last.result.kind = "SchemaResponse"
    /\ Len(schemas_db[last.arg.schema_id].fields) > 1

(* C26: validate_schema reports every stored schema valid, with no error.  *)
C26_StoredSchemasValidate ==
    (last.op = "validate_schema" /\ last.result.kind = "validation")
      => (last.result.valid /\ last.result.errors = <<>>)

(* a step of UpdateSchema: it ends with an update_schema call on record    *)
UpdateStep == last'.op = "update_schema" /\ now' = now

(* C27: an update_schema call that fails (404, 400) leaves the store as it *)
(* was: fields, description, indexes and updated_at of every schema; one   *)
(* that succeeds changes the addressed schema only.                        *)
C27_UpdateAllOrNothing ==
    [][UpdateStep
         => /\ last'.result.kind = "HTTPException" => schemas_db' = schemas_db
            /\ DOMAIN schemas_db' = DOMAIN schemas_db
            /\ \A k \in DOMAIN schemas_db :
                  k # last'.arg.schema_id => schemas_db'[k] = schemas_db[k]]_vars

(* an update that carried bad fields together with a description or        *)
(* indexes was refused, a second after the schema was last written         *)
C27_Witness ==
    /\ last.op = "update_schema" /\ last.arg.fields_given /\ last.arg.more
    /\ last.result \in {NoPrimaryKey, NotUnique}
    /\ schemas_db[last.arg.schema_id].updated_at = get_timestamp(0)
    /\ last.at > 0

-----------------------------------------------------------------------------
(* Queries: one Query object, constructed with some status, on which       *)
(* mark_completed and mark_failed are called as time passes.               *)

(* arguments of mark_completed: the defaults, a result of one row, an      *)
(* empty result                                                            *)
CompletedArgs ==
    { [result_data |-> None, row_count |-> None, execution_time_ms |-> None],
      [result_data |-> [t |-> "rows", n |-> 1], row_count |-> Int_(1),
       execution_time_ms |-> Int_(100)],
      [result_data |-> [t |-> "rows", n |-> 0], row_count |-> Int_(0),
       execution_time_ms |-> Int_(5)] }

ErrorMessages == {Str("Connection timeout"), Str("")}

InitQuery ==
    /\ config = [SECRET_KEY |-> DefaultSecret, ALGORITHM |-> DefaultAlgorithm,
                 ACCESS_TOKEN_EXPIRE_MINUTES |-> DefaultExpireMinutes]
    /\ now = 0
    /\ held = Malformed("")
    /\ heldInfo = NoInfo
    /\ last = NoCall
    /\ users = <<>>
    /\ plain = <<>>
    /\ tasks = [t \in Tasks |-> NoTask]
    /\ schemas_db = <<>>
    /\ query \in {Query(status) : status \in QueryStatus}
    /\ data_source \in {DataSource(status) : status \in DataSourceStatus}

MarkCompleted ==
    /\ \E a \in CompletedArgs, saved \in SaveOutcomes :
          /\ query' = mark_completed(query, a.result_data, a.row_count,
                                     a.execution_time_ms, now)
          /\ last' = [op |-> "mark_completed", at |-> now, arg |-> a,
                      result |-> saved]
    /\ UNCHANGED <<config, now, tokenVars, dbVars, tasks, schemas_db, data_source>>

MarkFailed ==
    /\ \E error_message \in ErrorMessages, saved \in SaveOutcomes :
          /\ query' = mark_failed(query, error_message, now)
          /\ last' = [op |-> "mark_failed", at |-> now,
                      arg |-> [error_message |-> error_message],
                      result |-> saved]
    /\ UNCHANGED <<config, now, tokenVars, dbVars, tasks, schemas_db, data_source>>

NextQuery ==
    \/ MarkCompleted
    \/ MarkFailed
    \/ Tick

SpecQuery == InitQuery /\ [][NextQuery]_vars

(* Data sources: one DataSource object whose connection is tested again    *)
(* and again.                                                              *)
UpdateStatus ==
    /\ \E status \in DataSourceStatus,
          error_message \in {None, Str(""), Str("Connection refused"),
                             Str("timeout")},
          saved \in SaveOutcomes :
          /\ data_source' = update_status(data_source, status, error_message, now)
          /\ last' = [op |-> "update_status", at |-> now,
                      arg |-> [status |-> status,
                               error_message |-> error_message],
                      result |-> saved]
    /\ UNCHANGED <<config, now, tokenVars, dbVars, tasks, schemas_db, query>>

NextSource ==
    \/ UpdateStatus
    \/ Tick

SpecSource == InitQuery /\ [][NextSource]_vars

-----------------------------------------------------------------------------
(* Properties of the Query and DataSource methods.                         *)

C24_StatusAndError ==
    last.op = "update_status"
      => /\ (last.arg.status = "active" /\ last.arg.error_message = None)
               => /\ data_source.status = "active"
                  /\ data_source.last_tested_at # None
                  /\ data_source.last_error_message = None
         /\ last.arg.error_message # None
               => /\ data_source.status = last.arg.status
                  /\ data_source.last_error_message = last.arg.error_message

(* C28: for a query constructed with the default status, error_message is  *)
(* set only when the status is FAILED, result_data only when it is         *)
(* COMPLETED, and completed_at exactly when it is COMPLETED or FAILED.     *)
C28_FieldsFollowStatus ==
    query.constructed_status = "pending"
      => /\ query.error_message # None => query.status = "failed"
         /\ query.result_data # None => query.status = "completed"
         /\ query.completed_at # None
               <=> query.status \in {"completed", "failed"}

-----------------------------------------------------------------------------
(* Properties of create_user and update_user_password, checked under       *)
(* SpecAuth.                                                               *)

(* AuthService.create_user ran: the request body passed UserCreate         *)
CreateCalled ==
    last.op = "create_user" /\ last.result # Raised("ValidationError")

C30_PasswordReplaced ==
    (last.op = "update_user_password" /\ last.result.kind = "User")
      => \A i \in 1..Len(users) :
            IF users[i].id = last.arg.id
            THEN /\ authenticate_user(users, [email |-> users[i].email,
                                              password |-> last.arg.password])
                      = [kind |-> "User", row |-> users[i]]
                 /\ last.arg.previous # last.arg.password
                      => authenticate_user(users,
                                           [email |-> users[i].email,
                                            password |-> last.arg.previous])
                           = None
            ELSE users[i] = last.arg.stored_before[i]

-----------------------------------------------------------------------------
(* Logins under each configured token lifetime: users register, log in     *)
(* through the service, and time passes.                                   *)

NextLogin ==
    \/ RegisterUser
    \/ ServiceLogin
    \/ Tick

SpecLogin == InitToken /\ [][NextLogin]_vars

(* C29: the expires_in of the Token that create_token_for_user returns is  *)
(* the number of seconds from the issuance to the exp claim of the access  *)
(* token, under every configured ACCESS_TOKEN_EXPIRE_MINUTES.              *)
C29_ExpiresInMatchesExp ==
    (last.op = "service_login" /\ last.result.kind = "Token")
      => last.result.expires_in
           = last.result.access_token.claims.exp - timegm(last.at)

====
